---------------------------- MODULE Spec2Model ----------------------------
(***************************************************************************)
(* A model of the sysd lifecycle supervisor (package sysd).                *)
(*                                                                         *)
(* The specifications share the variables below:                           *)
(*   SpecConfig   the configuration calls made before Start (Add,           *)
(*                SetDefaultOnFailure, SetAppOnFailure, SetAppPriority and *)
(*                the OnFailure builders Retry / RetryTimeout);            *)
(*   Spec         one call of Systemd.Start on a registry of at most one   *)
(*                app: the spawning loop, the app's tasks with             *)
(*                startWithRetry, the status watcher with its Restart and  *)
(*                Ignore actions, the dispatch loop and WaitForAppsStop;   *)
(*   SpecPair     the same call on two apps, none of which is restarted;   *)
(*   SpecStartup  the start-up phase of the call on up to three apps with  *)
(*                any priorities: snapshot, sort, spawning loop and the    *)
(*                first attempt of every task;                             *)
(*   SpecShutdown the call from the moment cancel() is called in steady    *)
(*                state, on one or two apps.                               *)
(***************************************************************************)
EXTENDS Integers, Sequences, FiniteSets, TLC

(***************************************************************************)
(* Bounds of the model and constants of the program.                       *)
(***************************************************************************)
\* largest priority handed to SetAppPriority
MaxPriority == 2
\* largest retry count given to OnFailureRestart.Retry before a run
MaxRetry == 2
\* ticks of the status ticker in one run
MaxTicks == 1
\* goroutines startApp spawns in one run before the watcher stops restarting
MaxTasks == 2
\* times the watcher sends ctx.Err() in one run
MaxCtxSends == 2
\* OnFailureRestart = &OnFailure{name: "restart", retry: 3, retryTimeout: 5s}
DefaultRetry == 3
DefaultRetryTimeout == 5
\* OnFailureRestart.Retry(4).RetryTimeout(2 * time.Second) in the example main
TunedRetry == 4
TunedRetryTimeout == 2

\* App objects handed to Add; a1 and a2 are two apps that report the same Name().
AppObjs == {"a1", "a2", "b1", "c1"}
NameOf(o) == CASE o \in {"a1", "a2"} -> "A"
               [] o = "b1" -> "B"
               [] OTHER -> "C"
Names == {NameOf(o) : o \in AppObjs}

\* The two package-level *OnFailure pointers.
Ptrs == {"OnFailureRestart", "OnFailureIgnore"}
Priorities == 0..MaxPriority
RetryArgs == {TunedRetry}
TimeoutArgs == {TunedRetryTimeout}

NoErr == "nil"
ErrAppAlreadyExists == "ErrAppAlreadyExists"
ErrAppNotExists == "ErrAppNotExists"

VARIABLES
    apps,              \* Systemd.apps: map name -> appItem
    defaultOnFailure,  \* Systemd.defaultOnFailure (a pointer)
    heap,              \* the OnFailure objects the pointers refer to
    lastOp,            \* the last configuration call and what it returned
    lastDefault,       \* argument of the last SetDefaultOnFailure call
    pc,                \* where Systemd.Start is: idle, spawn, dispatch, wait, returned
    startList,         \* Start's local slice `apps`, after sortByPriority
    tasks,             \* the goroutines startApp has spawned, in spawn order
    errs,              \* the buffered channel `errs` (its queued values)
    errsCap,           \* cap(errs) = len(s.apps) when Start was called
    wg,                \* the sync.WaitGroup counter
    ctx,               \* the governing context: live, canceled, deadline
    watcher,           \* the watchForStatus goroutine
    ret,               \* what Start returned
    crashed            \* the process died of an unrecovered panic

cvars == <<apps, defaultOnFailure, heap, lastOp, lastDefault>>
rvars == <<pc, startList, tasks, errs, errsCap, wg, ctx, watcher, ret, crashed>>
vars == <<apps, defaultOnFailure, heap, lastOp, lastDefault,
          pc, startList, tasks, errs, errsCap, wg, ctx, watcher, ret, crashed>>

\* The package-level policy objects as the var block creates them.
InitHeap ==
    [p \in Ptrs |->
        IF p = "OnFailureRestart"
        THEN [name |-> "restart", retry |-> DefaultRetry, retryTimeout |-> DefaultRetryTimeout]
        ELSE [name |-> "ignore", retry |-> 0, retryTimeout |-> 0]]

\* appItem
AppItem(o, p, pr) == [handle |-> o, name |-> NameOf(o), onFailure |-> p, priority |-> pr]

Op(op, name, obj, policy, priority, val, err) ==
    [op |-> op, name |-> name, obj |-> obj, policy |-> policy,
     priority |-> priority, val |-> val, err |-> err]

\* The nil error.
Nil == [task |-> 0, attempt |-> 0, kind |-> "nil"]

\* Start has not been called: nothing runs.
NoWatcher == [pc |-> "off", todo |-> {}, ticks |-> 0, sends |-> 0]
NotStarted ==
    /\ pc = "idle"
    /\ startList = << >>
    /\ tasks = << >>
    /\ errs = << >>
    /\ errsCap = 0
    /\ wg = 0
    /\ ctx = "live"
    /\ watcher = NoWatcher
    /\ ret = Nil
    /\ crashed = FALSE

\* New(): no apps, the default policy is the OnFailureRestart pointer.
ConfigInit ==
    /\ apps = << >>
    /\ defaultOnFailure = "OnFailureRestart"
    /\ heap = InitHeap
    /\ lastOp = Op("New", "-", "-", "-", -1, -1, NoErr)
    /\ lastDefault = "OnFailureRestart"
    /\ NotStarted

\* Mutant of AddExisting: the early return is missing, the entry is overwritten.
AddExisting_Overwrites(o) ==
    /\ NameOf(o) \in DOMAIN apps
    /\ apps' = [apps EXCEPT ![NameOf(o)] = AppItem(o, defaultOnFailure, 0)]
    /\ lastOp' = Op("Add", NameOf(o), o, "-", -1, -1, ErrAppAlreadyExists)

\* Add with the name taken: the registry is left as it is.
AddExisting(o) ==
    /\ NameOf(o) \in DOMAIN apps
    /\ apps' = apps
    /\ lastOp' = Op("Add", NameOf(o), o, "-", -1, -1, ErrAppAlreadyExists)

\* Add with a new name: s.apps[app.Name()] = appItem{app, name, defaultOnFailure, 0}
AddNew(o) ==
    /\ NameOf(o) \notin DOMAIN apps
    /\ apps' = (NameOf(o) :> AppItem(o, defaultOnFailure, 0)) @@ apps
    /\ lastOp' = Op("Add", NameOf(o), o, "-", -1, -1, NoErr)

Add(o) ==
    /\ \/ AddExisting(o)
       \/ AddNew(o)
    /\ UNCHANGED <<defaultOnFailure, heap, lastDefault>>
    /\ UNCHANGED rvars

\* Mutant of SetDefaultOnFailure: entries holding the old default are moved to the new one.
SetDefaultOnFailure_Retroactive(p) ==
    /\ defaultOnFailure' = p
    /\ lastDefault' = p
    /\ apps' = [n \in DOMAIN apps |->
                  IF apps[n].onFailure = defaultOnFailure
                  THEN [apps[n] EXCEPT !.onFailure = p]
                  ELSE apps[n]]
    /\ lastOp' = Op("SetDefaultOnFailure", "-", "-", p, -1, -1, NoErr)
    /\ UNCHANGED heap
    /\ UNCHANGED rvars

SetDefaultOnFailure(p) ==
    /\ defaultOnFailure' = p
    /\ lastDefault' = p
    /\ lastOp' = Op("SetDefaultOnFailure", "-", "-", p, -1, -1, NoErr)
    /\ UNCHANGED <<apps, heap>>
    /\ UNCHANGED rvars

\* The result both setters end with: `return ErrAppNotExists`, on every path.
SetterResult(present) == ErrAppNotExists

SetAppOnFailure(n, p) ==
    /\ apps' = IF n \in DOMAIN apps
               THEN [apps EXCEPT ![n].onFailure = p]
               ELSE apps
    /\ lastOp' = Op("SetAppOnFailure", n, "-", p, -1, -1, SetterResult(n \in DOMAIN apps))
    /\ UNCHANGED <<defaultOnFailure, heap, lastDefault>>
    /\ UNCHANGED rvars

\* Mutant of SetAppPriority: the entry is rebuilt, its policy falls back to the default.
SetAppPriority_Rebuilds(n, pr) ==
    /\ apps' = IF n \in DOMAIN apps
               THEN [apps EXCEPT ![n] = AppItem(apps[n].handle, defaultOnFailure, pr)]
               ELSE apps
    /\ lastOp' = Op("SetAppPriority", n, "-", "-", pr, -1, SetterResult(n \in DOMAIN apps))
    /\ UNCHANGED <<defaultOnFailure, heap, lastDefault>>
    /\ UNCHANGED rvars

SetAppPriority(n, pr) ==
    /\ apps' = IF n \in DOMAIN apps
               THEN [apps EXCEPT ![n].priority = pr]
               ELSE apps
    /\ lastOp' = Op("SetAppPriority", n, "-", "-", pr, -1, SetterResult(n \in DOMAIN apps))
    /\ UNCHANGED <<defaultOnFailure, heap, lastDefault>>
    /\ UNCHANGED rvars

\* (o *OnFailure).Retry: o.retry = retry; return o  (the receiver is updated)
Retry(p, r) ==
    /\ heap' = [heap EXCEPT ![p].retry = r]
    /\ lastOp' = Op("Retry", "-", "-", p, -1, r, NoErr)
    /\ UNCHANGED <<apps, defaultOnFailure, lastDefault>>
    /\ UNCHANGED rvars

\* (o *OnFailure).RetryTimeout: o.retryTimeout = retryTimeout; return o
RetryTimeout(p, t) ==
    /\ heap' = [heap EXCEPT ![p].retryTimeout = t]
    /\ lastOp' = Op("RetryTimeout", "-", "-", p, -1, t, NoErr)
    /\ UNCHANGED <<apps, defaultOnFailure, lastDefault>>
    /\ UNCHANGED rvars

ConfigNext ==
    \/ \E o \in AppObjs : Add(o)
    \/ \E p \in Ptrs : SetDefaultOnFailure(p)
    \/ \E n \in Names, p \in Ptrs : SetAppOnFailure(n, p)
    \/ \E n \in Names, pr \in Priorities : SetAppPriority(n, pr)
    \/ \E p \in Ptrs, r \in RetryArgs : Retry(p, r)
    \/ \E p \in Ptrs, t \in TimeoutArgs : RetryTimeout(p, t)

SpecConfig == ConfigInit /\ [][ConfigNext]_vars

(***************************************************************************)
(* Systemd.Start: the values that travel on the error channel.             *)
(***************************************************************************)
\* An error value: the task that produced it (0: the watcher), the attempt
\* of that task it comes from, and what it is.  kind: "fail" (an app's own
\* error), "wrapCanceled" (an app's error wrapping context.Canceled),
\* "panic" (a recovered panic), "Canceled" and "DeadlineExceeded" (ctx.Err()).
Err(task, attempt, kind) == [task |-> task, attempt |-> attempt, kind |-> kind]

\* errors.Is(err, context.Canceled)
IsCanceled(e) == e.kind \in {"Canceled", "wrapCanceled"}

\* ctx.Err() of a context that is done
CtxErr == Err(0, 0, IF ctx = "canceled" THEN "Canceled" ELSE "DeadlineExceeded")

\* What an app's Start may return as an error: its own failure at any time,
\* an error wrapping context.Canceled once the context is done.
AppErrKinds == IF ctx = "live" THEN {"fail"} ELSE {"fail", "wrapCanceled"}

(***************************************************************************)
(* sortByPriority: the exchange sort of the source, loop by loop.          *)
(***************************************************************************)
Swap(s, i, j) == [s EXCEPT ![i] = s[j], ![j] = s[i]]

\* Mutant of SortInner: the inner loop stops one element early.
RECURSIVE SortInner_StopsEarly(_, _, _)
SortInner_StopsEarly(s, i, j) ==
    IF j > Len(s) - 1 THEN s
    ELSE SortInner_StopsEarly(
             IF s[i].priority > s[j].priority THEN Swap(s, i, j) ELSE s, i, j + 1)

\* for j := i + 1; j < len(apps); j++ { if apps[i].priority > apps[j].priority { swap } }
RECURSIVE SortInner(_, _, _)
SortInner(s, i, j) ==
    IF j > Len(s) THEN s
    ELSE SortInner(IF s[i].priority > s[j].priority THEN Swap(s, i, j) ELSE s, i, j + 1)

\* for i := 0; i < len(apps); i++ { ... }
RECURSIVE SortOuter(_, _)
SortOuter(s, i) ==
    IF i > Len(s) THEN s
    ELSE SortOuter(SortInner(s, i, i + 1), i + 1)

sortByPriority(s) == SortOuter(s, 1)

\* The orders in which `for _, app := range s.apps` may yield the map's entries.
RangeOrders(m) ==
    {f \in [1..Cardinality(DOMAIN m) -> DOMAIN m] :
        \A i, j \in 1..Cardinality(DOMAIN m) : i # j => f[i] # f[j]}

(***************************************************************************)
(* The registries Start is called on: what the configuration calls build.  *)
(***************************************************************************)
\* The app registered under each name.
ObjOf(n) == CHOOSE o \in AppObjs \ {"a2"} : NameOf(o) = n

Registries(names, priorities) ==
    UNION {[S -> Ptrs \X priorities] : S \in SUBSET names}

Registry(f) == [n \in DOMAIN f |-> AppItem(ObjOf(n), f[n][1], f[n][2])]

\* OnFailureRestart after an optional Retry(n) call
RunHeaps == {[InitHeap EXCEPT !["OnFailureRestart"].retry = r] : r \in 1..MaxRetry}

Configured ==
    /\ defaultOnFailure = "OnFailureRestart"
    /\ lastOp = Op("New", "-", "-", "-", -1, -1, NoErr)
    /\ lastDefault = "OnFailureRestart"
    /\ NotStarted

\* Start is called on an empty registry or on one app that was added and
\* given a policy; no priority was set.
RunInit ==
    /\ \E f \in Registries({"A"}, {0}) : apps = Registry(f)
    /\ heap \in RunHeaps
    /\ Configured

\* Start is called on two apps that were added and given a policy.
PairInit ==
    /\ \E f \in [{"A", "B"} -> Ptrs \X {0}] : apps = Registry(f)
    /\ heap \in RunHeaps
    /\ Configured

\* Start is called on a registry of up to three apps with any priorities.
StartupInit ==
    /\ \E f \in Registries(Names, Priorities) : apps = Registry(f)
    /\ heap \in RunHeaps
    /\ Configured

(***************************************************************************)
(* Sending on errs.  With capacity 0 (no app registered) the channel is    *)
(* unbuffered: a send completes only by handing the value to the dispatch  *)
(* loop, which acts on it at once.                                         *)
(***************************************************************************)
CanSend == IF errsCap = 0 THEN pc = "dispatch" ELSE Len(errs) < errsCap

\* Mutant of Dispatch: the received error is returned without the filter.
Dispatch_NoFilter(e) == pc' = "returned" /\ ret' = e

\* case err := <-errs: if !errors.Is(err, context.Canceled) { return err }
Dispatch(e) ==
    IF IsCanceled(e)
    THEN UNCHANGED <<pc, ret>>
    ELSE pc' = "returned" /\ ret' = e

Send(e) ==
    IF errsCap = 0
    THEN errs' = errs /\ Dispatch(e)
    ELSE errs' = Append(errs, e) /\ UNCHANGED <<pc, ret>>

(***************************************************************************)
(* startApp: wg.Add(1); go func(app appItem) {...}(app)                    *)
(* A task's pc: "loop" (at the head of startWithRetry's loop, an attempt   *)
(* is due), "inStart" (inside app.Start), "send" (at errs <- err), "defer" *)
(* (at the deferred wg.Done()), "panicSend" (at the deferred errs <- err), *)
(* "done" (the goroutine has ended; its locals are gone).                  *)
(***************************************************************************)
Task(name, policy, restored, at, i, calls, sleeps, err, by) ==
    [app |-> name, onFailure |-> policy, restored |-> restored, pc |-> at,
     i |-> i, calls |-> calls, sleeps |-> sleeps, err |-> err, by |-> by]

\* The goroutine as it reaches startWithRetry's loop for the first time: with
\* a retry count of 0 the loop body never runs and nil is returned.
NewTask(item, restored) ==
    IF 0 < heap[item.onFailure].retry
    THEN Task(item.name, item.onFailure, restored, "loop", 0, 0, 0, Nil, "-")
    ELSE Task(item.name, item.onFailure, restored, "defer", 0, 0, 0, Nil, "nocall")

startApp(item, restored) ==
    /\ wg' = wg + 1
    /\ tasks' = Append(tasks, NewTask(item, restored))

cfgvars == <<defaultOnFailure, heap, lastOp, lastDefault>>

(***************************************************************************)
(* Systemd.Start                                                           *)
(***************************************************************************)
\* errs := make(chan error, len(s.apps)); the snapshot of s.apps; sortByPriority
StartCall ==
    /\ pc = "idle" /\ ~crashed
    /\ errsCap' = Cardinality(DOMAIN apps)
    /\ \E order \in RangeOrders(apps) :
          startList' = sortByPriority([k \in 1..Cardinality(DOMAIN apps) |-> apps[order[k]]])
    /\ pc' = "spawn"
    /\ UNCHANGED <<apps, tasks, errs, wg, ctx, watcher, ret, crashed>>
    /\ UNCHANGED cfgvars

\* for _, app := range apps { s.startApp(ctx, app, &wg, errs, false) }
SpawnNext ==
    /\ pc = "spawn" /\ ~crashed
    /\ Len(tasks) < Len(startList)
    /\ startApp(startList[Len(tasks) + 1], FALSE)
    /\ UNCHANGED <<apps, pc, startList, errs, errsCap, ctx, watcher, ret, crashed>>
    /\ UNCHANGED cfgvars

\* go s.watchForStatus(ctx, &wg, errs); Start enters its dispatch loop
GoWatcher ==
    /\ pc = "spawn" /\ ~crashed
    /\ Len(tasks) = Len(startList)
    /\ watcher' = [watcher EXCEPT !.pc = "select"]
    /\ pc' = "dispatch"
    /\ UNCHANGED <<apps, startList, tasks, errs, errsCap, wg, ctx, ret, crashed>>
    /\ UNCHANGED cfgvars

\* The governing context ends: by cancel() or by its deadline.
Cancel(how) ==
    /\ pc # "idle" /\ ~crashed
    /\ ctx = "live"
    /\ ctx' = how
    /\ UNCHANGED <<apps, pc, startList, tasks, errs, errsCap, wg, watcher, ret, crashed>>
    /\ UNCHANGED cfgvars

\* select { case <-ctx.Done(): s.WaitForAppsStop(&wg) ...
DispatchCtxDone ==
    /\ pc = "dispatch" /\ ~crashed
    /\ ctx # "live"
    /\ pc' = "wait"
    /\ UNCHANGED <<apps, startList, tasks, errs, errsCap, wg, ctx, watcher, ret, crashed>>
    /\ UNCHANGED cfgvars

\* select { ... case err := <-errs: ...
DispatchRecv ==
    /\ pc = "dispatch" /\ ~crashed
    /\ errs # << >>
    /\ errs' = Tail(errs)
    /\ Dispatch(Head(errs))
    /\ UNCHANGED <<apps, startList, tasks, errsCap, wg, ctx, watcher, crashed>>
    /\ UNCHANGED cfgvars

\* WaitForAppsStop: case <-time.After(s.graceFullShutdownTimeout); then return nil
WaitTimeout ==
    /\ pc = "wait" /\ ~crashed
    /\ pc' = "returned"
    /\ ret' = Nil
    /\ UNCHANGED <<apps, startList, tasks, errs, errsCap, wg, ctx, watcher, crashed>>
    /\ UNCHANGED cfgvars

\* WaitForAppsStop: case <-waitForGroup(wg) (wg.Wait() returned); then return nil
WaitDrained ==
    /\ pc = "wait" /\ ~crashed
    /\ wg = 0
    /\ pc' = "returned"
    /\ ret' = Nil
    /\ UNCHANGED <<apps, startList, tasks, errs, errsCap, wg, ctx, watcher, crashed>>
    /\ UNCHANGED cfgvars

(***************************************************************************)
(* The goroutine of startApp and startWithRetry inside it.                 *)
(***************************************************************************)
TaskIds == 1..Len(tasks)

\* for i := 0; i < app.onFailure.retry; i++ { err = app.Start(ctx, restored) ...
TaskInvoke(t) ==
    /\ ~crashed
    /\ tasks[t].pc = "loop"
    /\ tasks[t].i < heap[tasks[t].onFailure].retry
    /\ tasks' = [tasks EXCEPT ![t].pc = "inStart", ![t].calls = @ + 1]
    /\ UNCHANGED <<apps, pc, startList, errs, errsCap, wg, ctx, watcher, ret, crashed>>
    /\ UNCHANGED cfgvars

\* Mutant of AppReturnNil: a successful attempt does not leave the retry loop.
AppReturnNil_KeepsLooping(t) ==
    /\ ~crashed
    /\ tasks[t].pc = "inStart"
    /\ tasks' = [tasks EXCEPT ![t] =
          IF tasks[t].i + 1 < heap[tasks[t].onFailure].retry
          THEN [@ EXCEPT !.pc = "loop", !.err = Nil, !.i = @ + 1]
          ELSE [@ EXCEPT !.pc = "defer", !.err = Nil, !.i = @ + 1, !.by = "success"]]
    /\ UNCHANGED <<apps, pc, startList, errs, errsCap, wg, ctx, watcher, ret, crashed>>
    /\ UNCHANGED cfgvars

\* app.Start returned nil: `return nil`, nothing is sent, the deferred function runs
AppReturnNil(t) ==
    /\ ~crashed
    /\ tasks[t].pc = "inStart"
    /\ tasks' = [tasks EXCEPT ![t].pc = "defer", ![t].err = Nil, ![t].by = "success"]
    /\ UNCHANGED <<apps, pc, startList, errs, errsCap, wg, ctx, watcher, ret, crashed>>
    /\ UNCHANGED cfgvars

\* Mutant of AfterFailure: the loop gives up one attempt short of the retry count.
AfterFailure_StopsShort(tk, e) ==
    IF tk.i + 1 < heap[tk.onFailure].retry - 1
    THEN [tk EXCEPT !.pc = "loop", !.err = e, !.sleeps = @ + 1, !.i = @ + 1]
    ELSE [tk EXCEPT !.pc = "send", !.err = e, !.sleeps = @ + 1, !.i = @ + 1,
                    !.by = "exhausted"]

\* if err = app.Start(...); err != nil { time.Sleep(retryTimeout); continue }
\* i++; with i < retry the next attempt is due, otherwise `return err` and the
\* caller is at `errs <- err`.
AfterFailure(tk, e) ==
    IF tk.i + 1 < heap[tk.onFailure].retry
    THEN [tk EXCEPT !.pc = "loop", !.err = e, !.sleeps = @ + 1, !.i = @ + 1]
    ELSE [tk EXCEPT !.pc = "send", !.err = e, !.sleeps = @ + 1, !.i = @ + 1,
                    !.by = "exhausted"]

\* app.Start returned an error
AppReturnErr(t, kind) ==
    /\ ~crashed
    /\ tasks[t].pc = "inStart"
    /\ tasks' = [tasks EXCEPT ![t] = AfterFailure(tasks[t], Err(t, tasks[t].calls, kind))]
    /\ UNCHANGED <<apps, pc, startList, errs, errsCap, wg, ctx, watcher, ret, crashed>>
    /\ UNCHANGED cfgvars

\* app.Start panicked: the goroutine unwinds into the deferred function
AppPanic(t) ==
    /\ ~crashed
    /\ tasks[t].pc = "inStart"
    /\ tasks' = [tasks EXCEPT ![t].pc = "defer", ![t].err = Nil, ![t].by = "panic"]
    /\ UNCHANGED <<apps, pc, startList, errs, errsCap, wg, ctx, watcher, ret, crashed>>
    /\ UNCHANGED cfgvars

\* errs <- err
TaskSend(t) ==
    /\ ~crashed
    /\ tasks[t].pc = "send"
    /\ CanSend
    /\ Send(tasks[t].err)
    /\ tasks' = [tasks EXCEPT ![t].pc = "defer"]
    /\ UNCHANGED <<apps, startList, errsCap, wg, ctx, watcher, crashed>>
    /\ UNCHANGED cfgvars

\* The goroutine has ended.
Ended(tk) == Task(tk.app, tk.onFailure, tk.restored, "done", 0, 0, 0, Nil, "-")

\* defer: wg.Done(); a counter below zero panics inside the deferred function,
\* past any recover: the process dies.  Otherwise recover() follows.
TaskDefer(t) ==
    /\ ~crashed
    /\ tasks[t].pc = "defer"
    /\ wg' = wg - 1
    /\ crashed' = (wg - 1 < 0)
    /\ tasks' = [tasks EXCEPT ![t] =
          IF wg - 1 >= 0 /\ tasks[t].by = "panic"
          THEN [@ EXCEPT !.pc = "panicSend"]
          ELSE Ended(@)]
    /\ UNCHANGED <<apps, pc, startList, errs, errsCap, ctx, watcher, ret>>
    /\ UNCHANGED cfgvars

\* defer: if r := recover(); r != nil { errs <- err }
TaskPanicSend(t) ==
    /\ ~crashed
    /\ tasks[t].pc = "panicSend"
    /\ CanSend
    /\ Send(Err(t, tasks[t].calls, "panic"))
    /\ tasks' = [tasks EXCEPT ![t] = Ended(@)]
    /\ UNCHANGED <<apps, startList, errsCap, wg, ctx, watcher, crashed>>
    /\ UNCHANGED cfgvars

(***************************************************************************)
(* watchForStatus                                                          *)
(***************************************************************************)
\* case <-ticker.C: for _, app := range s.apps {
WatcherTick ==
    /\ ~crashed
    /\ watcher.pc = "select"
    /\ watcher.ticks < MaxTicks
    /\ watcher' = [watcher EXCEPT !.ticks = @ + 1,
                                  !.todo = DOMAIN apps,
                                  !.pc = IF DOMAIN apps = {} THEN "select" ELSE "sweep"]
    /\ UNCHANGED <<apps, pc, startList, tasks, errs, errsCap, wg, ctx, ret, crashed>>
    /\ UNCHANGED cfgvars

\* case <-ctx.Done(): about to run errs <- ctx.Err()
WatcherCtxDone ==
    /\ ~crashed
    /\ watcher.pc = "select"
    /\ ctx # "live"
    /\ watcher.sends < MaxCtxSends
    /\ watcher' = [watcher EXCEPT !.pc = "send"]
    /\ UNCHANGED <<apps, pc, startList, tasks, errs, errsCap, wg, ctx, ret, crashed>>
    /\ UNCHANGED cfgvars

\* errs <- ctx.Err(); then the for loop goes round again
WatcherSend ==
    /\ ~crashed
    /\ watcher.pc = "send"
    /\ CanSend
    /\ Send(CtxErr)
    /\ watcher' = [watcher EXCEPT !.pc = "select", !.sends = @ + 1]
    /\ UNCHANGED <<apps, startList, tasks, errsCap, wg, ctx, crashed>>
    /\ UNCHANGED cfgvars

\* The range loop moves on; after the last entry the watcher is back at select.
AfterProbe(n) ==
    [watcher EXCEPT !.todo = @ \ {n},
                    !.pc = IF watcher.todo \ {n} = {} THEN "select" ELSE "sweep"]

\* app.Status(ctx) returned nil
WatcherProbeOk(n) ==
    /\ ~crashed
    /\ watcher.pc = "sweep"
    /\ n \in watcher.todo
    /\ watcher' = AfterProbe(n)
    /\ UNCHANGED <<apps, pc, startList, tasks, errs, errsCap, wg, ctx, ret, crashed>>
    /\ UNCHANGED cfgvars

\* Mutant of WatcherRestart: the new goroutine is started with restored = false.
WatcherRestart_NotRestored(n) ==
    /\ ~crashed
    /\ watcher.pc = "sweep"
    /\ n \in watcher.todo
    /\ apps[n].onFailure = "OnFailureRestart"
    /\ Len(tasks) < MaxTasks
    /\ startApp(apps[n], FALSE)
    /\ watcher' = AfterProbe(n)
    /\ UNCHANGED <<apps, pc, startList, errs, errsCap, ctx, ret, crashed>>
    /\ UNCHANGED cfgvars

\* app.Status(ctx) failed; case OnFailureRestart: s.startApp(ctx, app, wg, errs, true)
WatcherRestart(n) ==
    /\ ~crashed
    /\ watcher.pc = "sweep"
    /\ n \in watcher.todo
    /\ apps[n].onFailure = "OnFailureRestart"
    /\ Len(tasks) < MaxTasks
    /\ startApp(apps[n], TRUE)
    /\ watcher' = AfterProbe(n)
    /\ UNCHANGED <<apps, pc, startList, errs, errsCap, ctx, ret, crashed>>
    /\ UNCHANGED cfgvars

\* app.Status(ctx) failed; case OnFailureIgnore: delete(s.apps, app.Name()); wg.Add(-1)
\* (a counter below zero panics in the watcher's goroutine: the process dies)
WatcherIgnore(n) ==
    /\ ~crashed
    /\ watcher.pc = "sweep"
    /\ n \in watcher.todo
    /\ apps[n].onFailure = "OnFailureIgnore"
    /\ apps' = [m \in DOMAIN apps \ {n} |-> apps[m]]
    /\ wg' = wg - 1
    /\ crashed' = (wg - 1 < 0)
    /\ watcher' = AfterProbe(n)
    /\ UNCHANGED <<pc, startList, tasks, errs, errsCap, ctx, ret>>
    /\ UNCHANGED cfgvars

Next ==
    \/ StartCall
    \/ SpawnNext
    \/ GoWatcher
    \/ \E how \in {"canceled", "deadline"} : Cancel(how)
    \/ DispatchCtxDone
    \/ DispatchRecv
    \/ WaitTimeout
    \/ WaitDrained
    \/ \E t \in TaskIds : TaskInvoke(t)
    \/ \E t \in TaskIds : AppReturnNil(t)
    \/ \E t \in TaskIds, kind \in AppErrKinds : AppReturnErr(t, kind)
    \/ \E t \in TaskIds : AppPanic(t)
    \/ \E t \in TaskIds : TaskSend(t)
    \/ \E t \in TaskIds : TaskDefer(t)
    \/ \E t \in TaskIds : TaskPanicSend(t)
    \/ WatcherTick
    \/ WatcherCtxDone
    \/ WatcherSend
    \/ \E n \in Names : WatcherProbeOk(n)
    \/ \E n \in Names : WatcherRestart(n)
    \/ \E n \in Names : WatcherIgnore(n)

Spec == RunInit /\ [][Next]_vars

\* Two apps, none of which the watcher restarts: every probe of an app under
\* OnFailureRestart succeeds.
PairNext ==
    \/ StartCall
    \/ SpawnNext
    \/ GoWatcher
    \/ \E how \in {"canceled", "deadline"} : Cancel(how)
    \/ DispatchCtxDone
    \/ DispatchRecv
    \/ WaitTimeout
    \/ WaitDrained
    \/ \E t \in TaskIds : TaskInvoke(t)
    \/ \E t \in TaskIds : AppReturnNil(t)
    \/ \E t \in TaskIds, kind \in AppErrKinds : AppReturnErr(t, kind)
    \/ \E t \in TaskIds : AppPanic(t)
    \/ \E t \in TaskIds : TaskSend(t)
    \/ \E t \in TaskIds : TaskDefer(t)
    \/ \E t \in TaskIds : TaskPanicSend(t)
    \/ WatcherTick
    \/ WatcherCtxDone
    \/ WatcherSend
    \/ \E n \in Names : WatcherProbeOk(n)
    \/ \E n \in Names : WatcherIgnore(n)

SpecPair == PairInit /\ [][PairNext]_vars

\* Start-up with apps that block in Start, as the App interface asks of them:
\* the spawning loop of Start and the first attempt of every task.
StartupNext ==
    \/ StartCall
    \/ SpawnNext
    \/ GoWatcher
    \/ \E t \in TaskIds : TaskInvoke(t)

SpecStartup == StartupInit /\ [][StartupNext]_vars

(***************************************************************************)
(* Shutdown: cancel() is called while the supervisor is in steady state.   *)
(***************************************************************************)
\* The task of an entry in steady state: an app under OnFailureRestart is
\* inside its first app.Start call, which blocks; with a retry count of 0 the
\* goroutine has already ended.
SteadyTask(item) ==
    IF 0 < heap[item.onFailure].retry
    THEN Task(item.name, item.onFailure, FALSE, "inStart", 0, 1, 0, Nil, "-")
    ELSE Ended(NewTask(item, FALSE))

\* Start is in its dispatch loop, nothing is queued on errs, no app has failed,
\* the watcher waits in its select, and cancel() has just been called.
ShutdownInit ==
    /\ \E S \in {{"A"}, {"A", "B"}} : \E f \in [S -> Ptrs \X {0}] : apps = Registry(f)
    /\ heap \in RunHeaps
    /\ defaultOnFailure = "OnFailureRestart"
    /\ lastOp = Op("New", "-", "-", "-", -1, -1, NoErr)
    /\ lastDefault = "OnFailureRestart"
    /\ pc = "dispatch"
    /\ \E order \in RangeOrders(apps) :
          startList = sortByPriority([k \in 1..Cardinality(DOMAIN apps) |-> apps[order[k]]])
    /\ tasks = [k \in 1..Len(startList) |-> SteadyTask(startList[k])]
    /\ errs = << >>
    /\ errsCap = Cardinality(DOMAIN apps)
    /\ wg = Cardinality({k \in 1..Len(startList) : 0 < heap[startList[k].onFailure].retry})
    /\ ctx = "canceled"
    /\ watcher = [NoWatcher EXCEPT !.pc = "select"]
    /\ ret = Nil
    /\ crashed = FALSE

ShutdownNext ==
    \/ DispatchCtxDone
    \/ DispatchRecv
    \/ WaitTimeout
    \/ WaitDrained
    \/ \E t \in TaskIds : TaskInvoke(t)
    \/ \E t \in TaskIds : AppReturnNil(t)
    \/ \E t \in TaskIds, kind \in AppErrKinds : AppReturnErr(t, kind)
    \/ \E t \in TaskIds : AppPanic(t)
    \/ \E t \in TaskIds : TaskSend(t)
    \/ \E t \in TaskIds : TaskDefer(t)
    \/ \E t \in TaskIds : TaskPanicSend(t)
    \/ WatcherTick
    \/ WatcherCtxDone
    \/ WatcherSend
    \/ \E n \in Names : WatcherProbeOk(n)
    \/ \E n \in Names : WatcherRestart(n)
    \/ \E n \in Names : WatcherIgnore(n)

SpecShutdown == ShutdownInit /\ [][ShutdownNext]_vars

(***************************************************************************)
(* Claims about the configuration calls (checked under SpecConfig).        *)
(***************************************************************************)
\* The policy in effect for an entry: the object its pointer refers to.
Effective(h, item) == <<h[item.onFailure].name, h[item.onFailure].retry, h[item.onFailure].retryTimeout>>

\* C1: an Add whose name is already registered returns ErrAppAlreadyExists and
\* leaves the whole registry (names, handles, priorities, policies) as it was;
\* an Add with a new name returns nil and inserts exactly one entry, with the
\* app as handle, priority 0 and the default policy configured at that moment.
C1_AddContract ==
    [][lastOp'.op = "Add" =>
          IF lastOp'.name \in DOMAIN apps
          THEN /\ lastOp'.err = ErrAppAlreadyExists
               /\ apps' = apps
               /\ heap' = heap
          ELSE /\ lastOp'.err = NoErr
               /\ DOMAIN apps' = DOMAIN apps \cup {lastOp'.name}
               /\ Cardinality(DOMAIN apps') = Cardinality(DOMAIN apps) + 1
               /\ \A n \in DOMAIN apps : apps'[n] = apps[n]
               /\ apps'[lastOp'.name] =
                      [handle |-> lastOp'.obj, name |-> lastOp'.name,
                       onFailure |-> defaultOnFailure, priority |-> 0]
               /\ heap' = heap]_vars

\* C1 witness: a second app named "A" was refused while the first one is kept.
C1_Witness ==
    /\ lastOp.op = "Add"
    /\ lastOp.err = ErrAppAlreadyExists
    /\ lastOp.obj = "a2"
    /\ "A" \in DOMAIN apps
    /\ apps["A"].handle = "a1"
    /\ Cardinality(DOMAIN apps) = 2

\* C2: SetAppOnFailure and SetAppPriority return ErrAppNotExists if and only
\* if the name is not registered (and nil when it is).
C2_SetterError ==
    [][lastOp'.op \in {"SetAppOnFailure", "SetAppPriority"} =>
          /\ lastOp'.err = ErrAppNotExists <=> lastOp'.name \notin DOMAIN apps
          /\ lastOp'.name \in DOMAIN apps => lastOp'.err = NoErr]_vars

\* C3: a setter called with an absent name changes nothing of the registry;
\* called with a registered name it replaces exactly the targeted field of
\* exactly that entry by its argument and leaves everything else alone.
C3_SetterFrame ==
    [][/\ lastOp'.op = "SetAppOnFailure" =>
            /\ DOMAIN apps' = DOMAIN apps
            /\ \A n \in DOMAIN apps :
                  apps'[n] = IF n = lastOp'.name
                             THEN [apps[n] EXCEPT !.onFailure = lastOp'.policy]
                             ELSE apps[n]
            /\ heap' = heap /\ defaultOnFailure' = defaultOnFailure
       /\ lastOp'.op = "SetAppPriority" =>
            /\ DOMAIN apps' = DOMAIN apps
            /\ \A n \in DOMAIN apps :
                  apps'[n] = IF n = lastOp'.name
                             THEN [apps[n] EXCEPT !.priority = lastOp'.priority]
                             ELSE apps[n]
            /\ heap' = heap /\ defaultOnFailure' = defaultOnFailure]_vars

\* C3 witness: SetAppPriority has replaced B's priority while another entry
\* with a non-default policy is registered.
C3_Witness ==
    /\ lastOp.op = "SetAppPriority"
    /\ lastOp.name = "B"
    /\ "B" \in DOMAIN apps
    /\ apps["B"].priority = MaxPriority
    /\ "A" \in DOMAIN apps
    /\ apps["A"].onFailure = "OnFailureIgnore"
    /\ apps["A"].priority = 0

\* C4: building a tuned policy (a Retry or RetryTimeout call) changes the
\* retry count and backoff in effect for no entry other than the one being
\* tuned, and does not change the policy later Add calls hand out.
C4_PoliciesImmutable ==
    [][lastOp'.op \in {"Retry", "RetryTimeout"} =>
          /\ Cardinality({n \in DOMAIN apps :
                             Effective(heap', apps'[n]) # Effective(heap, apps[n])}) <= 1
          /\ heap'[defaultOnFailure'] = heap[defaultOnFailure]]_vars

\* C5: SetDefaultOnFailure leaves every registered entry with the policy it
\* had, and every entry added afterwards gets the policy of the latest call.
C5_DefaultFrame ==
    [][/\ lastOp'.op = "SetDefaultOnFailure" =>
            /\ apps' = apps
            /\ heap' = heap
       /\ (lastOp'.op = "Add" /\ lastOp'.err = NoErr) =>
            /\ apps'[lastOp'.name].onFailure = lastDefault
            /\ Effective(heap', apps'[lastOp'.name]) =
                  <<heap[lastDefault].name, heap[lastDefault].retry, heap[lastDefault].retryTimeout>>]_vars

\* C5 witness: the default was switched to Ignore after A was added, then B
\* was added: A keeps Restart, B got Ignore.
C5_Witness ==
    /\ lastOp.op = "Add"
    /\ lastOp.name = "B"
    /\ lastDefault = "OnFailureIgnore"
    /\ DOMAIN apps = {"A", "B"}
    /\ apps["A"].onFailure = "OnFailureRestart"
    /\ apps["B"].onFailure = "OnFailureIgnore"


(***************************************************************************)
(* Claims about Start's spawning loop (checked under SpecStartup).         *)
(***************************************************************************)
\* C6: at initial startup Start's sorted snapshot holds every registered
\* entry exactly once, one task is spawned per entry (none lost, none twice),
\* and the spawns happen in ascending priority order: when priority(a) <
\* priority(b), a's task is spawned before b's.
C6_SpawnOrder ==
    /\ pc # "idle" =>
          /\ Len(startList) = Cardinality(DOMAIN apps)
          /\ \A n \in DOMAIN apps : \E k \in 1..Len(startList) : startList[k] = apps[n]
    /\ \A t \in TaskIds : ~tasks[t].restored /\ tasks[t].app \in DOMAIN apps
    /\ \A t, u \in TaskIds : t # u => tasks[t].app # tasks[u].app
    /\ \A a, b \in DOMAIN apps :
          apps[a].priority < apps[b].priority =>
              \A u \in TaskIds :
                  tasks[u].app = b => \E t \in 1..(u - 1) : tasks[t].app = a
    /\ pc = "dispatch" =>
          \A n \in DOMAIN apps : \E t \in TaskIds : tasks[t].app = n

\* C6 witness: three apps with three different priorities have all been
\* spawned and Start is in its dispatch loop.
C6_Witness ==
    /\ pc = "dispatch"
    /\ DOMAIN apps = Names
    /\ \A a, b \in DOMAIN apps : a # b => apps[a].priority # apps[b].priority
    /\ Len(tasks) = 3
    /\ apps[tasks[1].app].priority = 0
    /\ apps[tasks[3].app].priority = MaxPriority

\* C7: for two apps a and b under the Restart policy with priority(a) <
\* priority(b), the first invocation of a's Start comes before the first
\* invocation of b's Start in every interleaving: b's Start is never entered
\* while a's Start has not been called.
C7_StartOrder ==
    \A t, u \in TaskIds :
        (/\ tasks[t].app \in DOMAIN apps
         /\ tasks[u].app \in DOMAIN apps
         /\ ~tasks[t].restored /\ ~tasks[u].restored
         /\ tasks[t].onFailure = "OnFailureRestart"
         /\ tasks[u].onFailure = "OnFailureRestart"
         /\ apps[tasks[t].app].priority < apps[tasks[u].app].priority
         /\ tasks[u].calls >= 1)
        => tasks[t].calls >= 1

(***************************************************************************)
(* Claims about startWithRetry (checked under Spec and SpecPair).          *)
(***************************************************************************)
\* The values queued on the error channel.
Queued == {errs[k] : k \in 1..Len(errs)}

\* The retry count a task runs with.
RetryOf(t) == heap[tasks[t].onFailure].retry

\* C8: a task under Restart{retry = N} whose app failed on its first k-1
\* calls and succeeded on call k (k <= N) has invoked Start exactly k times
\* with one backoff sleep between consecutive attempts (k-1 sleeps), leaves
\* the loop at once with nil (the loop counter still at k-1), and no error of
\* that task is on the error channel or returned by Start.
C8_RetrySuccess ==
    \A t \in TaskIds :
        (tasks[t].pc = "defer" /\ tasks[t].by = "success") =>
            /\ tasks[t].calls >= 1
            /\ tasks[t].calls <= RetryOf(t)
            /\ tasks[t].sleeps = tasks[t].calls - 1
            /\ tasks[t].i = tasks[t].calls - 1
            /\ tasks[t].err = Nil
            /\ \A e \in Queued : e.task # t
            /\ ret.task # t

\* C8 witness: under retry = 2 an initial task failed once, slept once and
\* succeeded on its second call.
C8_Witness ==
    \E t \in TaskIds :
        /\ tasks[t].pc = "defer" /\ tasks[t].by = "success"
        /\ ~tasks[t].restored
        /\ tasks[t].onFailure = "OnFailureRestart"
        /\ RetryOf(t) = 2
        /\ tasks[t].calls = 2
        /\ tasks[t].sleeps = 1

\* C9 as stated: with the context not cancelled, once an always-failing app
\* under Restart{retry = N} has used up its N attempts at initial startup and
\* Start has returned, Start has returned that app's last error.
C9_ReturnsLastError ==
    \A t \in TaskIds :
        (/\ ~tasks[t].restored
         /\ tasks[t].onFailure = "OnFailureRestart"
         /\ tasks[t].pc = "defer" /\ tasks[t].by = "exhausted"
         /\ ctx = "live"
         /\ pc = "returned")
        => /\ tasks[t].calls = RetryOf(t)
           /\ ret = tasks[t].err

\* C9 amended: the task of an always-failing app under Restart{retry = N}
\* gives up after exactly N invocations of Start (N sleeps) and then sends
\* the app's last error, the one of attempt N, on the error channel; sent
\* while the context is live, that error is queued or is what Start
\* returned; and every app failure Start returns is the error of some task's
\* N-th attempt.
C9_ExhaustionSendsLastError ==
    /\ \A t \in TaskIds :
          (tasks[t].by = "exhausted" /\ tasks[t].pc \in {"send", "defer"}) =>
              /\ RetryOf(t) >= 1
              /\ tasks[t].calls = RetryOf(t)
              /\ tasks[t].sleeps = RetryOf(t)
              /\ tasks[t].err.task = t
              /\ tasks[t].err.attempt = RetryOf(t)
              /\ (tasks[t].pc = "defer" /\ tasks[t].err.kind = "fail") =>
                     \/ tasks[t].err \in Queued
                     \/ (pc = "returned" /\ ret = tasks[t].err)
    /\ (pc = "returned" /\ ret.kind = "fail") =>
          /\ ret.task \in TaskIds
          /\ ret.attempt = RetryOf(ret.task)

\* C9 witness: with the context live an initial task failed twice under
\* retry = 2 and Start returned the error of its second attempt.
C9_Witness ==
    \E t \in TaskIds :
        /\ ~tasks[t].restored
        /\ tasks[t].pc = "defer" /\ tasks[t].by = "exhausted"
        /\ RetryOf(t) = 2
        /\ tasks[t].calls = 2
        /\ ctx = "live"
        /\ pc = "returned"
        /\ ret = Err(t, 2, "fail")

\* C10: the initial task of an app under the Ignore policy makes a single
\* attempt without backoff: when it leaves startWithRetry, the app's
\* Start(ctx, false) has been invoked exactly once, and a failure of that
\* attempt is the routine's result.
C10_IgnoreSingleAttempt ==
    \A t \in TaskIds :
        (/\ tasks[t].onFailure = "OnFailureIgnore"
         /\ ~tasks[t].restored
         /\ tasks[t].pc \in {"send", "defer"})
        => tasks[t].calls = 1

(***************************************************************************)
(* Claims about shutdown (checked under SpecShutdown).                     *)
(***************************************************************************)
\* The steady states SpecShutdown starts from, before cancel() is called.
SteadyBeforeCancel ==
    /\ pc = "dispatch"
    /\ ctx = "live"
    /\ errs = << >>
    /\ watcher.pc = "select" /\ watcher.ticks = 0 /\ watcher.sends = 0
    /\ tasks = [k \in 1..Len(startList) |-> SteadyTask(startList[k])]
    /\ wg = Cardinality({k \in 1..Len(startList) : 0 < heap[startList[k].onFailure].retry})
    /\ ~crashed

\* C11: when the context is cancelled in steady state (no app has reported a
\* non-cancellation error), Start returns nil, whether the counter drained or
\* the graceful-shutdown timeout fired, whatever the app tasks do: a Start
\* that has returned has returned nil.
C11_CleanShutdown == pc = "returned" => ret = Nil

(***************************************************************************)
(* Claims about the dispatch loop and the watcher (checked under Spec and  *)
(* SpecPair).                                                              *)
(***************************************************************************)
\* C12: Start never returns a cancellation-derived error (context.Canceled
\* or an error wrapping it): receiving one leaves Start in its dispatch
\* loop.  Whenever Start returns a non-nil error, it is the error just
\* received from the error channel, where a task had put it, it is not a
\* wrapped cancellation, and it is returned on first receipt, whatever the
\* other apps are doing.
C12_ErrorPropagation ==
    [][/\ (pc' = "returned" /\ pc # "returned" /\ ret' # Nil) =>
             /\ pc = "dispatch"
             /\ ~IsCanceled(ret')
             /\ errsCap > 0 => (errs # << >> /\ ret' = Head(errs) /\ errs' = Tail(errs))
       /\ (pc = "dispatch" /\ Len(errs') < Len(errs)) =>
             IF IsCanceled(Head(errs))
             THEN pc' = "dispatch" /\ ret' = Nil
             ELSE pc' = "returned" /\ ret' = Head(errs)]_vars

\* C12 witness: Start has returned the failure of one app while the other
\* app is still running inside its Start.
C12_Witness ==
    /\ pc = "returned"
    /\ ret.kind = "fail"
    /\ \E t \in TaskIds : tasks[t].pc = "inStart" /\ ret.task # t

\* C13: when the probe of an app under the Ignore policy fails, its entry is
\* removed during that tick and stays out of the registry, no later sweep
\* probes it (a sweep only has registered entries left to probe), and the
\* removal leaves the rest of that tick's sweep intact: the entries not yet
\* probed remain to be probed and the watcher goes on to probe them.
C13_IgnoreAction ==
    [][/\ \A n \in Names :
             (n \in DOMAIN apps /\ n \notin DOMAIN apps') =>
                 /\ apps[n].onFailure = "OnFailureIgnore"
                 /\ n \in watcher.todo
                 /\ watcher'.todo = watcher.todo \ {n}
                 /\ watcher'.todo # {} => ~crashed'
       /\ \A n \in Names : n \notin DOMAIN apps => n \notin DOMAIN apps'
       /\ watcher'.todo \subseteq DOMAIN apps']_vars

\* C14: a step of the sweep that finishes the probe of an app either spawns
\* nothing (the probe succeeded, or the policy is Ignore) or, for an app
\* under Restart whose probe failed, spawns exactly one new task: for that
\* app, with restored = true, with the entry's policy, counted once in the
\* in-flight counter, its retry loop not yet begun.  No other step creates a
\* task with restored = true.
C14_RestartAction ==
    [][/\ \A n \in Names :
             (watcher.pc = "sweep" /\ n \in watcher.todo /\ n \notin watcher'.todo) =>
                 \/ tasks' = tasks
                 \/ /\ apps[n].onFailure = "OnFailureRestart"
                    /\ Len(tasks') = Len(tasks) + 1
                    /\ SubSeq(tasks', 1, Len(tasks)) = tasks
                    /\ tasks'[Len(tasks')].app = n
                    /\ tasks'[Len(tasks')].restored
                    /\ tasks'[Len(tasks')].onFailure = apps[n].onFailure
                    /\ tasks'[Len(tasks')].calls = 0
                    /\ wg' = wg + 1
       /\ Len(tasks') > Len(tasks) =>
             /\ Len(tasks') = Len(tasks) + 1
             /\ tasks'[Len(tasks')].restored =>
                    (watcher.pc = "sweep" /\ watcher'.todo # watcher.todo)]_vars

\* C14 witness: a task the watcher spawned for A is inside A.Start, called
\* with restored = true, next to A's initial task.
C14_Witness ==
    \E t \in TaskIds :
        /\ tasks[t].restored
        /\ tasks[t].app = "A"
        /\ tasks[t].pc = "inStart"
        /\ tasks[t].calls = 1
        /\ watcher.ticks = 1
        /\ Len(tasks) = 2

\* C15: after the context has ended the watcher sends ctx.Err() on the error
\* channel exactly once: the number of its sends never exceeds 1.
C15_CtxErrOnce == watcher.sends <= 1

\* C16: the exhaustion error of a task the watcher's Restart action spawned
\* (restored = true) never makes Start return it: an app failure that Start
\* returns comes from a task of the initial startup.
C16_RestartErrorsNotReturned ==
    (pc = "returned" /\ ret.kind = "fail" /\ ret.task \in TaskIds) =>
        ~tasks[ret.task].restored

\* C17: a panic raised inside an app's Start is contained: the deferred
\* function of the task retires the task's unit of the in-flight counter
\* exactly once, the process stays alive, and the task goes on to deliver the
\* recovered panic as an error value on the error channel.
C17_FaultContainment ==
    [][\A t \in TaskIds :
          (tasks[t].pc = "defer" /\ tasks[t].by = "panic" /\ tasks'[t] # tasks[t]) =>
              /\ wg' = wg - 1
              /\ ~crashed'
              /\ tasks'[t].pc = "panicSend"]_vars

\* C18: at most one task is alive per app: in every state, for every app
\* name, at most one spawned task for it has not finished, restarts included.
C18_OneTaskPerApp ==
    \A n \in Names :
        Cardinality({t \in TaskIds : tasks[t].app = n /\ tasks[t].pc # "done"}) <= 1

(***************************************************************************)
(* Claims about the in-flight counter and the error channel.               *)
(***************************************************************************)
\* Start will not receive from the error channel again.
StartStoppedReceiving == pc \in {"wait", "returned"}

\* C19: every spawned task retires its unit of the in-flight counter once its
\* app's Start has returned for good: a task holding its final error is never
\* left waiting in front of its deferred wg.Done(), so the counter can drain
\* and the shutdown wait can end by drain.
C19_InFlightRetired ==
    \A t \in TaskIds :
        tasks[t].pc = "send" => (CanSend \/ ~StartStoppedReceiving)

\* C20: delivering an outcome cannot deadlock: no task and no watcher is left
\* waiting to send on the error channel when the channel is full and Start
\* has stopped receiving.
C20_NoSendDeadlock ==
    (StartStoppedReceiving /\ ~CanSend) =>
        /\ \A t \in TaskIds : tasks[t].pc \notin {"send", "panicSend"}
        /\ watcher.pc # "send"

\* C21: the in-flight counter is never negative, whatever the combination of
\* task completions and Ignore actions: the unit the Ignore branch retires
\* and the removed app's own task completion never take it below zero (which
\* ends the process).
C21_CounterNeverNegative == wg >= 0 /\ ~crashed

\* C22: the watch loop stops at cancellation: once the context has ended the
\* watcher starts no further probe sweep, spawns no further task and removes
\* no further entry.
C22_WatcherStops ==
    [][ctx # "live" =>
          /\ watcher'.ticks = watcher.ticks
          /\ Len(tasks') > Len(tasks) => ~tasks'[Len(tasks')].restored
          /\ apps' = apps]_vars

\* C23: once the context has ended the retry routine makes no further
\* invocation of any app's Start: in particular a task whose app returned an
\* error because of the cancellation does not use its remaining retries.
C23_NoStartAfterCancel ==
    [][ctx # "live" =>
          \A t \in TaskIds : tasks'[t].calls <= tasks[t].calls]_vars

\* C24: Start returns nil for every way the context can end: when it ended
\* by deadline expiry, a Start that has returned has returned nil unless an
\* app reported an error of its own (a failure or a panic); the context
\* error the watcher emits is filtered like context.Canceled.
C24_DeadlineReturnsNil ==
    (pc = "returned" /\ ctx = "deadline") =>
        (ret = Nil \/ ret.kind \in {"fail", "panic"})

=============================================================================
